---- MODULE Spec2Model ----
(***************************************************************************)
(* Conversation orchestrator of agentic_rag: the two-node LangGraph        *)
(* (requirements analyst, workflow generator), the /chat/start and         *)
(* /chat/continue handlers and the in-memory SessionService.               *)
(*                                                                         *)
(* Text is modelled as a sequence of tokens (a Python str cut at token     *)
(* boundaries), so that startswith / replace / concatenation are computed  *)
(* and not assumed.  Optional values are None == <<>> or Some(x) == <<x>>. *)
(*                                                                         *)
(* A handler is cut at its awaits: start_chat / continue_chat up to the    *)
(* graph run, one step per graph node (with the edge that follows it), and *)
(* respond for the appends and the answer.  The backends are opaque: a run *)
(* of an agent returns a text or raises, tool calls included.              *)
(*                                                                         *)
(* Left out: the prompt text handed to the backends, logging and timing,   *)
(* the uuid4 placeholder "timestamp" of a stored entry, and the except of  *)
(* execute_unified_multi_agent_workflow, which no node can reach since     *)
(* each node catches every Exception of its own backend run.               *)
(***************************************************************************)
EXTENDS Integers, Sequences, FiniteSets, TLC

\* ------------------------------------------------------------------ bounds
\* sessions ever created (uuid4 values handed out by start_chat)
MaxSessions == 2
\* turns begun over the whole run
MaxTurns == 4
\* request handlers that can be in flight at once under Spec
Handlers == {1}

\* ------------------------------------------------------------- environment
\* texts a client can send as query / message
UserTexts == {<<"automate">>, <<"more detail">>}
\* outputs the requirements analyst backend can return (response.output)
AnalystOutputs ==
    { <<"COMPLETE:", "purpose">>,
      <<"QUESTIONS:", "which?">>,
      <<"purpose", "COMPLETE:">> }
\* outputs the workflow generator backend can return (workflow JSON)
GeneratorOutputs == {<<"{json}">>}
\* str(e) of an exception raised by a backend run
Faults == {<<"timeout">>}
\* a backend call either returns an output or raises
AnalystRuns ==
    [ok : {TRUE}, out : AnalystOutputs] \cup [ok : {FALSE}, out : Faults]
GeneratorRuns ==
    [ok : {TRUE}, out : GeneratorOutputs] \cup [ok : {FALSE}, out : Faults]

SessionIds == 1..MaxSessions

\* ---------------------------------------------------------------- options
None == <<>>
Some(x) == <<x>>
IsSet(o) == o # None
Get(o) == o[1]

\* ------------------------------------------------------------------- text
COMPLETE == "COMPLETE:"
startswith(text, token) == Len(text) >= 1 /\ text[1] = token
\* str.replace(token, ""): every occurrence is removed
replace_all(text, token) == SelectSeq(text, LAMBDA t : t # token)
IsSpace(t) == t = " "
RECURSIVE lstrip(_)
lstrip(text) ==
    IF text # <<>> /\ IsSpace(Head(text)) THEN lstrip(Tail(text)) ELSE text
RECURSIVE rstrip(_)
rstrip(text) ==
    IF text # <<>> /\ IsSpace(text[Len(text)])
    THEN rstrip(SubSeq(text, 1, Len(text) - 1))
    ELSE text
strip(text) == rstrip(lstrip(text))

\* --------------------------------------------------------------- messages
HumanMessage(c) == [type |-> "human", content |-> c]
AIMessage(c) == [type |-> "ai", content |-> c]
isinstance_HumanMessage(msg) == msg.type = "human"

\* ------------------------------------------------------------------ state
VARIABLES
    store,      \* SessionService._store: session_id -> [ts, history]
    now,        \* time.time()
    turn,       \* per handler: the request being served and its graph state
    response,   \* per handler: what the handler returned to its caller
    nextSid,    \* the next uuid4 start_chat draws
    turns       \* turns begun so far

vars == <<store, now, turn, response, nextSid, turns>>

\* MultiAgentState as the handlers construct it
MultiAgentState(messages) ==
    [ messages |-> messages,
      step |-> "analyze_requirements",
      requirements |-> None,
      final_workflow |-> None,
      error_message |-> None ]

RequirementsState(user_query, workflow_purpose) ==
    [ user_query |-> user_query,
      workflow_purpose |-> workflow_purpose,
      trigger_type |-> "schedule",
      required_nodes |-> <<"Schedule Trigger", "HTTP Request">>,
      data_flow |-> <<"Trigger -> Process -> Output">>,
      clarifying_questions |-> <<>>,
      is_complete |-> TRUE ]

\* a handler slot that serves no request
IdleTurn ==
    [ pc |-> "idle", kind |-> "none", session_id |-> 0, text |-> <<>>,
      state |-> MultiAgentState(<<>>),
      analyst_run |-> None, generator_run |-> None ]

\* --------------------------------------------------------- SessionService
get_history_creates(st, session_id, t) ==
    IF session_id \in DOMAIN st
    THEN [ history |-> st[session_id].history,
           store |-> [st EXCEPT ![session_id] = [ts |-> t, history |-> @.history]] ]
    ELSE [ history |-> <<>>,
           store |-> [k \in DOMAIN st \cup {session_id} |->
                         IF k = session_id
                         THEN [ts |-> t, history |-> <<>>]
                         ELSE st[k]] ]
get_history_expiring(st, session_id, t) ==
    IF session_id \in DOMAIN st /\ ~(t - st[session_id].ts > 86400)
    THEN [ history |-> st[session_id].history,
           store |-> [st EXCEPT ![session_id] = [ts |-> t, history |-> @.history]] ]
    ELSE [ history |-> <<>>, store |-> st ]
\* get_history: the stored history and the store with the entry re-stamped
get_history(st, session_id, t) ==
    IF session_id \in DOMAIN st
    THEN [ history |-> st[session_id].history,
           store |-> [st EXCEPT ![session_id] = [ts |-> t, history |-> @.history]] ]
    ELSE [ history |-> <<>>, store |-> st ]

append_message_prepending(st, session_id, message, t) ==
    IF session_id \in DOMAIN st
    THEN [st EXCEPT ![session_id] =
              [ts |-> t, history |-> <<message>> \o @.history]]
    ELSE [k \in DOMAIN st \cup {session_id} |->
              IF k = session_id
              THEN [ts |-> t, history |-> <<message>>]
              ELSE st[k]]
append_message_touching_all(st, session_id, message, t) ==
    [k \in DOMAIN st \cup {session_id} |->
        IF k = session_id
        THEN [ts |-> t,
              history |-> IF k \in DOMAIN st
                          THEN Append(st[k].history, message)
                          ELSE <<message>>]
        ELSE [ts |-> t, history |-> st[k].history]]
\* append_message: append to the entry and re-stamp it, or create the entry
append_message(st, session_id, message, t) ==
    IF session_id \in DOMAIN st
    THEN [st EXCEPT ![session_id] =
              [ts |-> t, history |-> Append(@.history, message)]]
    ELSE [k \in DOMAIN st \cup {session_id} |->
              IF k = session_id
              THEN [ts |-> t, history |-> <<message>>]
              ELSE st[k]]

\* ------------------------------------------------------------ graph nodes
\* the forced-progression threshold ("4+ exchanges")
ForcedExchanges == 4

forced_completion ==
    << COMPLETE,
       "Create a workflow based on user requirements from the conversation (automatically proceeding after multiple exchanges)" >>

\* len([msg for msg in messages if isinstance(msg, HumanMessage)])
user_message_count(messages) ==
    Cardinality({i \in DOMAIN messages : isinstance_HumanMessage(messages[i])})

is_forced_never(count, analysis_result) == FALSE
\* "if user_message_count >= 4 and not analysis_result.startswith("COMPLETE:")"
is_forced(count, analysis_result) ==
    count >= ForcedExchanges /\ ~startswith(analysis_result, COMPLETE)

\* the purpose put into the RequirementsState
workflow_purpose(count, analysis_result, user_query) ==
    IF count >= ForcedExchanges
    THEN <<"Workflow based on user conversation:">> \o user_query
    ELSE strip(replace_all(analysis_result, COMPLETE))

complete_update_without_requirements(ai_message, user_query, purpose) ==
    [ messages |-> <<ai_message>>,
      step |-> "generate_workflow" ]
\* the dict returned when the analysis starts with the marker
complete_update(ai_message, user_query, purpose) ==
    [ messages |-> <<ai_message>>,
      step |-> "generate_workflow",
      requirements |-> Some(RequirementsState(user_query, purpose)) ]

clarification_update_complete(ai_message) ==
    [ messages |-> <<ai_message>>,
      step |-> "complete" ]
\* the dict returned when the analysis asks for clarification
clarification_update(ai_message) ==
    [ messages |-> <<ai_message>>,
      step |-> "analyze_requirements" ]

analysis_error_update_silent(fault) ==
    [ step |-> "complete",
      error_message |-> Some(<<"Error in requirements analysis:">> \o fault) ]
analysis_error_update_as_generation(fault) ==
    LET error_msg == <<"Error generating workflow:">> \o fault
    IN  [ messages |-> <<AIMessage(error_msg)>>,
          step |-> "complete",
          error_message |-> Some(error_msg) ]
\* the dict returned when requirements_analyst.run raises; fault is str(e)
analysis_error_update(fault) ==
    LET error_msg == <<"Error in requirements analysis:">> \o fault
    IN  [ messages |-> <<AIMessage(error_msg)>>,
          step |-> "complete",
          error_message |-> Some(error_msg) ]

requirements_analyst_node_forcing_failures(state, run) ==
    LET messages == state.messages
        count == user_message_count(messages)
        user_query == messages[Len(messages)].content
        forced == count >= ForcedExchanges
                  /\ (~run.ok \/ ~startswith(run.out, COMPLETE))
        analysis_result == IF forced THEN forced_completion ELSE run.out
        ai_message == AIMessage(analysis_result)
    IN  IF messages = <<>>
        THEN [ error_message |-> Some(<<"No messages to analyze">>),
               step |-> "complete" ]
        ELSE IF ~run.ok /\ ~forced
        THEN analysis_error_update(run.out)
        ELSE IF startswith(analysis_result, COMPLETE)
        THEN complete_update(ai_message, user_query,
                             workflow_purpose(count, analysis_result, user_query))
        ELSE clarification_update(ai_message)
\* The dict the requirements analyst node returns; run is the outcome of
\* requirements_analyst.run (an output, or an exception).
requirements_analyst_node(state, run) ==
    LET messages == state.messages
        count == user_message_count(messages)
        user_query == messages[Len(messages)].content
        forced == is_forced(count, run.out)
        analysis_result == IF forced THEN forced_completion ELSE run.out
        ai_message == AIMessage(analysis_result)
    IN  IF messages = <<>>
        THEN [ error_message |-> Some(<<"No messages to analyze">>),
               step |-> "complete" ]
        ELSE IF ~run.ok
        THEN analysis_error_update(run.out)
        ELSE IF startswith(analysis_result, COMPLETE)
        THEN complete_update(ai_message, user_query,
                             workflow_purpose(count, analysis_result, user_query))
        ELSE clarification_update(ai_message)

\* "not requirements or not requirements.is_complete"
no_complete_requirements(state) ==
    ~IsSet(state.requirements) \/ ~Get(state.requirements).is_complete

generation_error_update_unrecorded(fault) ==
    [ messages |-> <<AIMessage(<<"Error generating workflow:">> \o fault)>>,
      step |-> "complete" ]
generation_error_update_as_artifact(fault) ==
    [ messages |-> <<AIMessage(<<"Error generating workflow:">> \o fault)>>,
      step |-> "complete",
      final_workflow |-> Some(fault),
      error_message |-> Some(<<"Error generating workflow:">> \o fault) ]
\* the dict returned when workflow_generator.run raises; fault is str(e)
generation_error_update(fault) ==
    LET error_msg == <<"Error generating workflow:">> \o fault
    IN  [ messages |-> <<AIMessage(error_msg)>>,
          step |-> "complete",
          error_message |-> Some(error_msg) ]

\* conversation_history: one "role: content" line per message
conversation_history(messages) ==
    [i \in 1..Len(messages) |->
        << IF isinstance_HumanMessage(messages[i]) THEN "User:" ELSE "Assistant:" >>
        \o messages[i].content]
\* workflow_prompt: the prompt the generator node composes for its agent
workflow_prompt(state) ==
    [ history |-> conversation_history(state.messages),
      purpose |-> Get(state.requirements).workflow_purpose,
      original_request |-> Get(state.requirements).user_query ]

workflow_update_without_artifact(workflow_json) ==
    [ messages |->
          <<AIMessage(<<"Here's your complete n8n workflow:", "[json-fence]">>
                      \o workflow_json \o <<"[fence]">>)>>,
      step |-> "complete" ]
workflow_update_keeping_step(workflow_json) ==
    [ messages |->
          <<AIMessage(<<"Here's your complete n8n workflow:", "[json-fence]">>
                      \o workflow_json \o <<"[fence]">>)>>,
      final_workflow |-> Some(workflow_json) ]
workflow_update_stamped(workflow_json) ==
    [ messages |->
          <<AIMessage(<<"Here's your complete n8n workflow:", "[json-fence]">>
                      \o workflow_json
                      \o <<IF now = 0 THEN "[fence]" ELSE "[fence] later">>)>>,
      step |-> "complete",
      final_workflow |-> Some(workflow_json) ]
\* the dict returned when workflow_generator.run returns workflow_json
workflow_update(workflow_json) ==
    [ messages |->
          <<AIMessage(<<"Here's your complete n8n workflow:", "[json-fence]">>
                      \o workflow_json \o <<"[fence]">>)>>,
      step |-> "complete",
      final_workflow |-> Some(workflow_json) ]

\* The dict the workflow generator node returns; run is the outcome of
\* workflow_generator.run (tool calls included).
workflow_generator_node(state, run) ==
    LET no_req_msg == <<"No complete requirements available for workflow generation.">>
    IN  IF no_complete_requirements(state)
        THEN [ messages |-> <<AIMessage(no_req_msg)>>,
               step |-> "complete",
               error_message |-> Some(no_req_msg) ]
        ELSE IF run.ok
        THEN workflow_update(run.out)
        ELSE generation_error_update(run.out)

route_next_step_end(state) == "__end__"
route_next_step_always_generates(state) == "workflow_generator"
route_next_step(state) ==
    IF state.step = "generate_workflow" THEN "workflow_generator" ELSE "__end__"

\* LangGraph folds a node's dict into the state: the messages channel uses
\* the add_messages reducer (append), every other key is overwritten.
apply_update(state, update) ==
    [k \in DOMAIN state |->
        IF k \in DOMAIN update
        THEN IF k = "messages" THEN state.messages \o update.messages ELSE update[k]
        ELSE state[k]]

\* ---------------------------------------------------------------- routes
reconstruct_messages_by_role(history, message) ==
    [i \in 1..Len(history) |->
        IF history[i].role = "user"
        THEN HumanMessage(history[i].content)
        ELSE AIMessage(history[i].content)]
    \o <<HumanMessage(message)>>
reconstruct_messages_new_only(history, message) == <<HumanMessage(message)>>
\* continue_chat rebuilds the graph messages from the stored history
reconstruct_messages(history, message) ==
    [i \in 1..Len(history) |->
        IF history[i].role = "user"
        THEN HumanMessage(history[i].content)
        ELSE HumanMessage(history[i].content)]
    \o <<HumanMessage(message)>>

last_message_first_reply(result) ==
    LET replies == SelectSeq(result.messages, LAMBDA msg : msg.type = "ai")
    IN  IF replies # <<>> THEN Some(replies[1]) ELSE None
\* result["messages"][-1] if result["messages"] else None
last_message(result) ==
    IF result.messages # <<>>
    THEN Some(result.messages[Len(result.messages)])
    ELSE None

persist_turn_reply_first(st, session_id, text, last, t) ==
    append_message(
        append_message(st, session_id,
                       [role |-> "assistant", content |-> last.content], t),
        session_id, [role |-> "user", content |-> text], t)
persist_turn_reply_only(st, session_id, text, last, t) ==
    append_message(st, session_id, [role |-> "assistant", content |-> last.content], t)
persist_turn_skip_errors(st, session_id, text, last, t) ==
    IF startswith(last.content, "Error in requirements analysis:")
       \/ startswith(last.content, "Error generating workflow:")
    THEN st
    ELSE append_message(
             append_message(st, session_id, [role |-> "user", content |-> text], t),
             session_id, [role |-> "assistant", content |-> last.content], t)
\* the two appends a handler makes once the graph has returned
persist_turn(st, session_id, text, last, t) ==
    append_message(
        append_message(st, session_id, [role |-> "user", content |-> text], t),
        session_id, [role |-> "assistant", content |-> last.content], t)

ChatResponse(session_id, last, result) ==
    [ status |-> 200,
      session_id |-> session_id,
      message |-> Some([role |-> "assistant", content |-> last.content]),
      conversation_complete |-> result.step = "complete",
      current_agent |-> result.step,
      metadata |-> [ requirements_complete |-> IsSet(result.requirements),
                     workflow_generated |-> IsSet(result.final_workflow),
                     error |-> result.error_message ] ]

\* an HTTPException raised by a handler
HTTPError(status, session_id) ==
    [ status |-> status,
      session_id |-> session_id,
      message |-> None,
      conversation_complete |-> FALSE,
      current_agent |-> "none",
      metadata |-> [ requirements_complete |-> FALSE,
                     workflow_generated |-> FALSE,
                     error |-> None ] ]

\* ---------------------------------------------------------------- actions
Free(h) == turn[h].pc \in {"idle", "responded"}

start_chat_persisting_query(h, query) ==
    /\ Free(h)
    /\ turns < MaxTurns
    /\ nextSid <= MaxSessions
    /\ turn' = [turn EXCEPT ![h] =
            [ pc |-> "requirements_analyst", kind |-> "start",
              session_id |-> nextSid, text |-> query,
              state |-> MultiAgentState(<<HumanMessage(query)>>),
              analyst_run |-> None, generator_run |-> None ]]
    /\ response' = [response EXCEPT ![h] = None]
    /\ nextSid' = nextSid + 1
    /\ turns' = turns + 1
    /\ store' = append_message(store, nextSid,
                               [role |-> "user", content |-> query], now)
    /\ UNCHANGED now
\* POST /chat/start up to the await of the graph
start_chat(h, query) ==
    /\ Free(h)
    /\ turns < MaxTurns
    /\ nextSid <= MaxSessions
    /\ turn' = [turn EXCEPT ![h] =
            [ pc |-> "requirements_analyst", kind |-> "start",
              session_id |-> nextSid, text |-> query,
              state |-> MultiAgentState(<<HumanMessage(query)>>),
              analyst_run |-> None, generator_run |-> None ]]
    /\ response' = [response EXCEPT ![h] = None]
    /\ nextSid' = nextSid + 1
    /\ turns' = turns + 1
    /\ UNCHANGED <<store, now>>

\* POST /chat/continue up to the await of the graph, or its 404
continue_chat(h, session_id, message) ==
    /\ Free(h)
    /\ turns < MaxTurns
    /\ LET got == get_history(store, session_id, now)
       IN  /\ store' = got.store
           /\ IF got.history = <<>>
              THEN /\ turn' = [turn EXCEPT ![h] =
                          [IdleTurn EXCEPT !.pc = "responded", !.kind = "continue",
                                           !.session_id = session_id,
                                           !.text = message]]
                   /\ response' = [response EXCEPT ![h] = Some(HTTPError(404, session_id))]
              ELSE /\ turn' = [turn EXCEPT ![h] =
                          [ pc |-> "requirements_analyst", kind |-> "continue",
                            session_id |-> session_id, text |-> message,
                            state |-> MultiAgentState(
                                reconstruct_messages(got.history, message)),
                            analyst_run |-> None, generator_run |-> None ]]
                   /\ response' = [response EXCEPT ![h] = None]
    /\ turns' = turns + 1
    /\ UNCHANGED <<now, nextSid>>

requirements_analyst_recording(h, run) ==
    /\ turn[h].pc = "requirements_analyst"
    /\ LET state == turn[h].state
           new == apply_update(state, requirements_analyst_node(state, run))
       IN  /\ turn' = [turn EXCEPT ![h].state = new,
                                   ![h].pc = route_next_step(new),
                                   ![h].analyst_run =
                                       IF state.messages = <<>> THEN None ELSE Some(run)]
           /\ store' = append_message(store, turn[h].session_id,
                                      [role |-> "assistant", content |-> run.out], now)
    /\ UNCHANGED <<now, response, nextSid, turns>>
\* graph step: the requirements analyst node, then its conditional edge
requirements_analyst(h, run) ==
    /\ turn[h].pc = "requirements_analyst"
    /\ LET state == turn[h].state
           new == apply_update(state, requirements_analyst_node(state, run))
       IN  turn' = [turn EXCEPT ![h].state = new,
                                ![h].pc = route_next_step(new),
                                ![h].analyst_run =
                                    IF state.messages = <<>> THEN None ELSE Some(run)]
    /\ UNCHANGED <<store, now, response, nextSid, turns>>

\* graph step: the workflow generator node, then the edge to END
workflow_generator(h, run) ==
    /\ turn[h].pc = "workflow_generator"
    /\ LET state == turn[h].state
           new == apply_update(state, workflow_generator_node(state, run))
       IN  turn' = [turn EXCEPT ![h].state = new,
                                ![h].pc = "__end__",
                                ![h].generator_run =
                                    IF no_complete_requirements(state)
                                    THEN None ELSE Some(run)]
    /\ UNCHANGED <<store, now, response, nextSid, turns>>

\* the handler after the graph has returned: persist and answer
respond(h) ==
    /\ turn[h].pc = "__end__"
    /\ LET result == turn[h].state
           last == last_message(result)
           sid == turn[h].session_id
       IN  IF ~IsSet(last)
           THEN /\ response' = [response EXCEPT ![h] = Some(HTTPError(500, sid))]
                /\ store' = store
           ELSE /\ store' = persist_turn(store, sid, turn[h].text, Get(last), now)
                /\ response' = [response EXCEPT ![h] =
                                    Some(ChatResponse(sid, Get(last), result))]
    /\ turn' = [turn EXCEPT ![h].pc = "responded"]
    /\ UNCHANGED <<now, nextSid, turns>>

\* ---------------------------------------------------------- specification
Init ==
    /\ store = <<>>
    /\ now = 0
    /\ turn = [h \in Handlers |-> IdleTurn]
    /\ response = [h \in Handlers |-> None]
    /\ nextSid = 1
    /\ turns = 0

Next ==
    \/ \E h \in Handlers, q \in UserTexts : start_chat(h, q)
    \/ \E h \in Handlers, sid \in SessionIds, m \in UserTexts : continue_chat(h, sid, m)
    \/ \E h \in Handlers, run \in AnalystRuns : requirements_analyst(h, run)
    \/ \E h \in Handlers, run \in GeneratorRuns : workflow_generator(h, run)
    \/ \E h \in Handlers : respond(h)

Spec == Init /\ [][Next]_vars

\* ------------------------------------------------- vocabulary of the claims
\* the turn handler h serves, if it serves one that reached the graph
InTurn(h) == turn[h].pc \in {"requirements_analyst", "workflow_generator", "__end__"}
           \/ (turn[h].pc = "responded" /\ turn[h].kind \in {"start", "continue"}
               /\ Get(response[h]).status # 404)
GraphReturned(h) == InTurn(h) /\ turn[h].pc \in {"__end__", "responded"}
Responded(h) == InTurn(h) /\ turn[h].pc = "responded"

\* user-role entries of the stored transcript of a session
UserEntries(session_id) ==
    IF session_id \in DOMAIN store
    THEN Cardinality({i \in DOMAIN store[session_id].history :
                         store[session_id].history[i].role = "user"})
    ELSE 0
\* handler h serves the N-th user turn of its session (handlers run one at a time)
TurnNo(h) ==
    UserEntries(turn[h].session_id) + (IF turn[h].pc = "responded" THEN 0 ELSE 1)

AnalystReturned(h) == IsSet(turn[h].analyst_run) /\ Get(turn[h].analyst_run).ok
AnalystFailed(h) == IsSet(turn[h].analyst_run) /\ ~Get(turn[h].analyst_run).ok
AnalystMarked(h) ==
    AnalystReturned(h) /\ startswith(Get(turn[h].analyst_run).out, COMPLETE)
AnalystUnmarked(h) ==
    AnalystReturned(h) /\ ~startswith(Get(turn[h].analyst_run).out, COMPLETE)
GeneratorInvoked(h) == IsSet(turn[h].generator_run)
GeneratorReturned(h) == GeneratorInvoked(h) /\ Get(turn[h].generator_run).ok
GeneratorFailed(h) == GeneratorInvoked(h) /\ ~Get(turn[h].generator_run).ok
\* the state machine is in Generating: routed to, or past, the generator
Generating(h) == turn[h].pc = "workflow_generator" \/ GeneratorInvoked(h)

Stage(step) ==
    CASE step = "analyze_requirements" -> "Analyzing"
      [] step = "generate_workflow" -> "Generating"
      [] step = "complete" -> "Done"

\* the last two entries of a stored transcript
Tail2(session_id) ==
    LET hist == store[session_id].history
    IN  SubSeq(hist, Len(hist) - 1, Len(hist))

\* every assistant entry stored for the session before the turn h serves is
\* an unmarked analyst output: no earlier turn emitted the completion marker
NeverMarkedBefore(h) ==
    LET sid == turn[h].session_id
        hist == IF sid \in DOMAIN store THEN store[sid].history ELSE <<>>
        upto == IF turn[h].pc = "responded" THEN Len(hist) - 2 ELSE Len(hist)
    IN  \A i \in 1..upto :
            hist[i].role = "assistant"
                => /\ hist[i].content \in AnalystOutputs
                   /\ ~startswith(hist[i].content, COMPLETE)

\* ------------------------------------------------------------------ claims
\* C1 (as stated): on every N-th user turn of a session with N >= 4 the
\* Generation stage is invoked in that turn.
C1_GeneratingOnEveryLateTurn ==
    \A h \in Handlers :
        (GraphReturned(h) /\ TurnNo(h) >= ForcedExchanges)
            => GeneratorInvoked(h)

\* C1 (amended): on every N-th user turn of a session with N >= 4 on which
\* the requirements analyst returned an output, marked or not, the turn is
\* routed to the workflow generator with complete requirements and the
\* generator backend is invoked in that same turn.
C1_ForcedProgression ==
    \A h \in Handlers :
        (TurnNo(h) >= ForcedExchanges /\ AnalystReturned(h))
            => /\ Generating(h)
               /\ IsSet(turn[h].state.requirements)
               /\ (GraphReturned(h) => GeneratorInvoked(h))

\* C1 witness: the fourth turn of a session, whose analyst output carried no
\* marker, was answered with the generator invoked.
C1_Witness ==
    \E h \in Handlers :
        /\ Responded(h)
        /\ TurnNo(h) = ForcedExchanges
        /\ AnalystUnmarked(h)
        /\ GeneratorInvoked(h)

\* C2 (as stated): in a session whose analyst never emits the marker, a turn
\* answers requirements_complete == true exactly when it is turn 4 or later;
\* turns 1, 2 and 3 answer false.
C2_ForcedExactlyAtFourthTurn ==
    \A h \in Handlers :
        (Responded(h) /\ AnalystUnmarked(h) /\ NeverMarkedBefore(h))
            => (Get(response[h]).metadata.requirements_complete
                    <=> TurnNo(h) >= ForcedExchanges)


\* C3: a response with conversation_complete carries a workflow or an error,
\* and never both.
C3_CompleteMeansArtifactXorError ==
    \A h \in Handlers :
        Responded(h) =>
            LET r == Get(response[h])
            IN  /\ r.conversation_complete
                    => (r.metadata.workflow_generated \/ IsSet(r.metadata.error))
                /\ ~(r.metadata.workflow_generated /\ IsSet(r.metadata.error))

\* C3 witness: a turn whose generator backend failed was answered complete,
\* with the error and without a workflow.
C3_Witness ==
    \E h \in Handlers :
        /\ Responded(h)
        /\ GeneratorFailed(h)
        /\ Get(response[h]).conversation_complete
        /\ IsSet(Get(response[h]).metadata.error)
        /\ ~Get(response[h]).metadata.workflow_generated

\* C4: in every graph state of a turn, after each node and at the end,
\* step is "complete" exactly when final_workflow or error_message is set.
C4_DoneIffArtifactOrError ==
    \A h \in Handlers :
        InTurn(h) =>
            LET st == turn[h].state
            IN  Stage(st.step) = "Done"
                    <=> (IsSet(st.final_workflow) \/ IsSet(st.error_message))

\* C4 witness: the graph returned from the requirements analyst alone with
\* step "complete" and the error set.
C4_Witness ==
    \E h \in Handlers :
        /\ turn[h].pc = "__end__"
        /\ AnalystFailed(h)
        /\ turn[h].state.step = "complete"
        /\ IsSet(turn[h].state.error_message)

\* C5: whenever a turn is routed to the workflow generator, or its step is
\* generate_workflow, or the generator backend has been invoked, the state
\* holds requirements with is_complete.
C5_GeneratingHasCompleteRequirements ==
    \A h \in Handlers :
        (InTurn(h) /\ (Generating(h) \/ Stage(turn[h].state.step) = "Generating"))
            => /\ IsSet(turn[h].state.requirements)
               /\ Get(turn[h].state.requirements).is_complete

\* C5 witness: a turn waits at the workflow generator node, requirements set.
C5_Witness ==
    \E h \in Handlers :
        /\ turn[h].pc = "workflow_generator"
        /\ turn[h].state.step = "generate_workflow"
        /\ IsSet(turn[h].state.requirements)


\* ---------------------------------------------------- turns and their ends
\* the override of line 200 did not fire on the output the analyst returned
NotForced(h) ==
    ~is_forced(user_message_count(turn[h].state.messages),
               Get(turn[h].analyst_run).out)
\* a clarification turn: an unmarked analyst output that was not overridden
ClarificationTurn(h) == InTurn(h) /\ AnalystUnmarked(h) /\ NotForced(h)

\* what a clarification turn leaves behind, but for the final stage
ClarificationOutcome(h) ==
    LET st == turn[h].state
        out == Get(turn[h].analyst_run).out
    IN  /\ ~Generating(h)
        /\ ~IsSet(st.requirements)
        /\ ~IsSet(st.final_workflow)
        /\ ~IsSet(st.error_message)
        /\ Responded(h) =>
              LET r == Get(response[h])
                  sid == turn[h].session_id
              IN  /\ r.status = 200
                  /\ r.message = Some([role |-> "assistant", content |-> out])
                  /\ r.metadata = [ requirements_complete |-> FALSE,
                                    workflow_generated |-> FALSE,
                                    error |-> None ]
                  /\ sid \in DOMAIN store
                  /\ Tail2(sid) = << [role |-> "user", content |-> turn[h].text],
                                     [role |-> "assistant", content |-> out] >>

\* this step is handler h taking a continue_chat for the session it last served
ContinuesSameSession(h) ==
    /\ turn[h].pc = "responded"
    /\ turns' = turns + 1
    /\ turn'[h].kind = "continue"
    /\ turn'[h].session_id = turn[h].session_id
\* after this step handler h is in a turn at the requirements analyst with a
\* fresh graph state whose messages are the stored transcript and the message
AcceptedFresh(h) ==
    LET st == turn'[h].state
        sid == turn[h].session_id
    IN  /\ turn'[h].pc = "requirements_analyst"
        /\ response'[h] = None
        /\ Stage(st.step) = "Analyzing"
        /\ st.requirements = None
        /\ st.final_workflow = None
        /\ st.error_message = None
        /\ Len(st.messages) = Len(store[sid].history) + 1
        /\ \A i \in 1..Len(store[sid].history) :
               st.messages[i].content = store[sid].history[i].content
        /\ st.messages[Len(st.messages)].content = turn'[h].text

\* C6 (as stated): a clarification turn ends in stage Done, with the
\* clarifying message, complete == false, no artifact and no error.
C6_ClarificationEndsDone ==
    \A h \in Handlers :
        (ClarificationTurn(h) /\ GraphReturned(h))
            => /\ Stage(turn[h].state.step) = "Done"
               /\ ClarificationOutcome(h)

C6_ClarificationState ==
    \A h \in Handlers :
        (ClarificationTurn(h) /\ GraphReturned(h))
            => /\ Stage(turn[h].state.step) = "Analyzing"
               /\ ClarificationOutcome(h)
               /\ Responded(h) =>
                     /\ ~Get(response[h]).conversation_complete
                     /\ Stage(Get(response[h]).current_agent) = "Analyzing"
C6_ClarificationStep ==
    \A h \in Handlers :
        (Responded(h) /\ ClarificationTurn(h) /\ ContinuesSameSession(h))
            => AcceptedFresh(h)
\* C6 (amended): a clarification turn ends with the stage still Analyzing
\* (step analyze_requirements, conversation_complete false), not Done, with
\* the clarifying message returned and stored, no requirements, no artifact
\* and no error; the next continue_chat on the session is accepted and starts
\* at Analyzing.
C6_Clarification ==
    []C6_ClarificationState /\ [][C6_ClarificationStep]_vars

\* C6 witness: a clarification turn was answered with current_agent
\* analyze_requirements, and a continue_chat on its session can be taken next.
C6_Witness ==
    \E h \in Handlers :
        /\ Responded(h)
        /\ ClarificationTurn(h)
        /\ Get(response[h]).current_agent = "analyze_requirements"
        /\ ENABLED (\E m \in UserTexts : continue_chat(h, turn[h].session_id, m))

\* C7: a turn whose analyst output starts with the marker is routed to the
\* workflow generator in the same turn, and if the generator backend returns,
\* the answer has a workflow, requirements_complete, step complete, no error.
C7_MarkerThenArtifactInOneTurn ==
    \A h \in Handlers :
        (InTurn(h) /\ AnalystMarked(h))
            => /\ Generating(h)
               /\ GraphReturned(h) => GeneratorInvoked(h)
               /\ (Responded(h) /\ GeneratorReturned(h)) =>
                     LET r == Get(response[h])
                     IN  /\ r.status = 200
                         /\ r.conversation_complete
                         /\ Stage(r.current_agent) = "Done"
                         /\ r.metadata = [ requirements_complete |-> TRUE,
                                           workflow_generated |-> TRUE,
                                           error |-> None ]
                         /\ turn[h].state.final_workflow
                                = Some(Get(turn[h].generator_run).out)

\* C7 witness: the first turn of a session, marked by the analyst, was
\* answered with the workflow.
C7_Witness ==
    \E h \in Handlers :
        /\ Responded(h)
        /\ turn[h].kind = "start"
        /\ AnalystMarked(h)
        /\ GeneratorReturned(h)
        /\ Get(response[h]).metadata.workflow_generated


\* --------------------------------------------------------------- failures
\* the stage an error text names
StageOfError(text) ==
    CASE startswith(text, "Error in requirements analysis:") -> "Requirements"
      [] startswith(text, "Error generating workflow:") -> "Generation"
      [] OTHER -> "unknown"

\* the turn of handler h ended on the failure `fault` of the backend of `stage`
EndedOnStageError(h, stage, fault) ==
    LET st == turn[h].state
        err == st.error_message
    IN  /\ GraphReturned(h)
        /\ Stage(st.step) = "Done"
        /\ IsSet(err)
        /\ StageOfError(Get(err)) = stage
        /\ SubSeq(Get(err), 2, Len(Get(err))) = fault
        /\ ~IsSet(st.final_workflow)
        /\ Get(last_message(st)) = AIMessage(Get(err))
        /\ Responded(h) =>
              LET r == Get(response[h])
              IN  /\ r.status = 200
                  /\ r.conversation_complete
                  /\ r.message = Some([role |-> "assistant", content |-> Get(err)])
                  /\ r.metadata.error = err
                  /\ ~r.metadata.workflow_generated

TurnRequest(h) ==
    /\ turn[h].pc # "idle"
    /\ turn[h].kind = "start" \/ turn[h].session_id \in DOMAIN store
\* the graph steps and the answer of the turn handler h serves
TurnStep(h) ==
    \/ \E run \in AnalystRuns : requirements_analyst(h, run)
    \/ \E run \in GeneratorRuns : workflow_generator(h, run)
    \/ respond(h)

\* C9: every start_chat, and every continue_chat on a stored session, is
\* answered 200 with an assistant message, whatever the backends did: the
\* message is the last message of the graph, it is the stored transcript's
\* last entry, and when the turn failed it is the error text; until it is
\* answered the turn can always take its next step.
C9_EveryTurnYieldsMessage ==
    \A h \in Handlers :
        TurnRequest(h) =>
            /\ turn[h].pc # "responded" => ENABLED TurnStep(h)
            /\ turn[h].pc \in {"__end__", "responded"}
                  => IsSet(last_message(turn[h].state))
            /\ turn[h].pc = "responded" =>
                  LET r == Get(response[h])
                      st == turn[h].state
                      sid == turn[h].session_id
                  IN  /\ r.status = 200
                      /\ IsSet(r.message)
                      /\ Get(r.message).role = "assistant"
                      /\ Get(r.message).content = Get(last_message(st)).content
                      /\ Get(last_message(st)).type = "ai"
                      /\ IsSet(st.error_message) =>
                            /\ Get(r.message).content = Get(st.error_message)
                            /\ r.metadata.error = st.error_message
                      /\ sid \in DOMAIN store
                      /\ Tail2(sid)[2] = Get(r.message)

\* C9 witness: a continue_chat whose analyst backend failed was answered with
\* the error text as the message.
C9_Witness ==
    \E h \in Handlers :
        /\ Responded(h)
        /\ turn[h].kind = "continue"
        /\ AnalystFailed(h)
        /\ Get(response[h]).status = 200
        /\ Get(Get(response[h]).message).content = Get(turn[h].state.error_message)

\* a turn that was answered with an error
ErrorTurn(h) == Responded(h) /\ IsSet(Get(response[h]).metadata.error)

C10_ErrorTurnState ==
    \A h \in Handlers :
        ErrorTurn(h) =>
            LET sid == turn[h].session_id
            IN  /\ sid \in DOMAIN store
                /\ Tail2(sid) =
                      << [role |-> "user", content |-> turn[h].text],
                         [role |-> "assistant",
                          content |-> Get(Get(response[h]).metadata.error)] >>
C10_ErrorTurnStep ==
    \A h \in Handlers :
        (ErrorTurn(h) /\ ContinuesSameSession(h))
            => /\ AcceptedFresh(h)
               /\ LET ms == turn'[h].state.messages
                  IN  ms[Len(ms) - 1].content = Get(Get(response[h]).metadata.error)
\* C10: after a turn answered with an error the session is stored, its
\* transcript ends with that turn's user message and the error text, and the
\* next continue_chat on it is accepted and starts a fresh graph state at
\* Analyzing, without error, whose messages hold the error turn.
C10_ErrorEndsTurnNotSession ==
    []C10_ErrorTurnState /\ [][C10_ErrorTurnStep]_vars

\* C10 witness: the first turn of a session failed in the generator; the
\* session is stored and a continue_chat on it can be taken next.
C10_Witness ==
    \E h \in Handlers :
        /\ ErrorTurn(h)
        /\ turn[h].kind = "start"
        /\ GeneratorFailed(h)
        /\ turn[h].session_id \in DOMAIN store
        /\ ENABLED (\E m \in UserTexts : continue_chat(h, turn[h].session_id, m))

\* ------------------------------------------------------- the served routes
\* bounds of the specification with overlapping requests and a clock
\* turns begun over the whole run
ServerTurns == 3
\* readings of time.time()
MaxNow == 1
\* request handlers that can be in flight at once
ServerHandlers == {1, 2}
\* texts the clients of this specification send
ServerTexts == {<<"automate">>}

\* the body GET /chat/{session_id}/history returns
HistoryResponse(session_id, history) ==
    [ status |-> 200,
      session_id |-> session_id,
      messages |-> history,
      message_count |-> Len(history) ]

\* GET /chat/{session_id}/history
get_chat_history(h, session_id) ==
    /\ Free(h)
    /\ LET got == get_history(store, session_id, now)
       IN  /\ store' = got.store
           /\ response' = [response EXCEPT ![h] =
                  IF got.history = <<>>
                  THEN Some(HTTPError(404, session_id))
                  ELSE Some(HistoryResponse(session_id, got.history))]
    /\ turn' = [turn EXCEPT ![h] =
                   [IdleTurn EXCEPT !.pc = "responded", !.kind = "history",
                                    !.session_id = session_id]]
    /\ UNCHANGED <<now, nextSid, turns>>

\* the handler's task is cancelled while it awaits the graph
\* (CancelledError is not an Exception: no except clause of the handler runs)
cancel(h) ==
    /\ turn[h].pc \in {"requirements_analyst", "workflow_generator", "__end__"}
    /\ turn' = [turn EXCEPT ![h] =
                   [IdleTurn EXCEPT !.kind = "cancelled"]]
    /\ response' = [response EXCEPT ![h] = None]
    /\ UNCHANGED <<store, now, nextSid, turns>>

\* time.time() advances
tick ==
    /\ now < MaxNow
    /\ now' = now + 1
    /\ UNCHANGED <<store, turn, response, nextSid, turns>>

InitServer ==
    /\ store = <<>>
    /\ now = 0
    /\ turn = [h \in ServerHandlers |-> IdleTurn]
    /\ response = [h \in ServerHandlers |-> None]
    /\ nextSid = 1
    /\ turns = 0

NextServer ==
    \/ \E h \in ServerHandlers, q \in ServerTexts :
          turns < ServerTurns /\ start_chat(h, q)
    \/ \E h \in ServerHandlers, sid \in SessionIds, m \in ServerTexts :
          turns < ServerTurns /\ continue_chat(h, sid, m)
    \/ \E h \in ServerHandlers, run \in AnalystRuns : requirements_analyst(h, run)
    \/ \E h \in ServerHandlers, run \in GeneratorRuns : workflow_generator(h, run)
    \/ \E h \in ServerHandlers : respond(h)
    \/ \E h \in ServerHandlers : cancel(h)
    \/ tick

\* the chat routes served by one event loop: requests overlap at the await of
\* the graph, the clock advances, a request can be cancelled
SpecServer == InitServer /\ [][NextServer]_vars

\* turns begun over a run of the specification with history reads
HistoryTurns == 3

NextHistory ==
    \/ \E h \in Handlers, q \in UserTexts :
          turns < HistoryTurns /\ start_chat(h, q)
    \/ \E h \in Handlers, sid \in SessionIds, m \in UserTexts :
          turns < HistoryTurns /\ continue_chat(h, sid, m)
    \/ \E h \in Handlers, sid \in SessionIds : get_chat_history(h, sid)
    \/ \E h \in Handlers, run \in AnalystRuns : requirements_analyst(h, run)
    \/ \E h \in Handlers, run \in GeneratorRuns : workflow_generator(h, run)
    \/ \E h \in Handlers : respond(h)

\* one request at a time, chat turns and history reads
SpecHistory == Init /\ [][NextHistory]_vars


\* ------------------------------------------------------------ transcripts
\* the transcript the store holds for a session id, empty if it holds none
Transcript(session_id) ==
    IF session_id \in DOMAIN store THEN store[session_id].history ELSE <<>>
\* user and assistant entries alternate, a user entry first, none unanswered
Alternates(history) ==
    /\ Len(history) % 2 = 0
    /\ \A i \in 1..Len(history) :
          history[i].role = IF i % 2 = 1 THEN "user" ELSE "assistant"
\* handler h has answered a history read with the transcript
HistoryRead(h) ==
    /\ turn[h].pc = "responded"
    /\ turn[h].kind = "history"
    /\ Get(response[h]).status = 200
\* handler h has answered a start_chat turn
StartAnswered(h) ==
    /\ Responded(h)
    /\ turn[h].kind = "start"
    /\ Get(response[h]).status = 200
\* the two entries handler h's turn contributes, once it is answered
TurnEntries(h, reply) ==
    << [role |-> "user", content |-> turn[h].text],
       [role |-> "assistant", content |-> Get(reply.message).content] >>

\* C11 (state part): every stored transcript alternates user and assistant
\* entries in pairs; when a start_chat turn is answered its session holds
\* exactly the query and the reply, in that order; a history read returns the
\* stored transcript and its length.
C11_TranscriptState ==
    /\ \A sid \in DOMAIN store : Alternates(store[sid].history)
    /\ \A h \in DOMAIN turn :
          /\ StartAnswered(h) =>
                Transcript(turn[h].session_id) = TurnEntries(h, Get(response[h]))
          /\ HistoryRead(h) =>
                /\ Get(response[h]).messages = Transcript(turn[h].session_id)
                /\ Get(response[h]).message_count =
                       Len(Transcript(turn[h].session_id))
\* C11 (step part): a transcript changes only when a turn on its session is
\* answered, and then it grows by exactly that turn's user entry followed by
\* its assistant entry, so k answered turns leave 2k entries in turn order.
C11_TranscriptStep ==
    \A sid \in SessionIds :
        \/ Transcript(sid)' = Transcript(sid)
        \/ \E h \in DOMAIN turn :
              /\ turn[h].pc = "__end__"
              /\ turn'[h].pc = "responded"
              /\ turn[h].session_id = sid
              /\ Transcript(sid)' =
                     Transcript(sid) \o TurnEntries(h, Get(response'[h]))
\* C11: after start_chat the transcript is the query then the reply, and
\* after k answered turns it has 2k entries alternating user / assistant in
\* the order the turns were processed; get_chat_history returns it.
C11_TranscriptGrowsInPairs ==
    []C11_TranscriptState /\ [][C11_TranscriptStep]_vars
\* a history read that returns the four entries of two answered turns
C11_Witness ==
    \E h \in DOMAIN turn :
        /\ HistoryRead(h)
        /\ Get(response[h]).message_count = 4
        /\ Alternates(Get(response[h]).messages)


\* ------------------------------------------------------- unknown sessions
\* handler h has answered a continue_chat or history request with 404
NotFound(h) ==
    /\ turn[h].pc = "responded"
    /\ turn[h].kind \in {"continue", "history"}
    /\ Get(response[h]).status = 404
\* this step is handler h taking up a continue_chat or history request
TakesUpLookup(h) ==
    /\ Free(h)
    /\ <<turn'[h], response'[h]>> # <<turn[h], response[h]>>
    /\ turn'[h].kind \in {"continue", "history"}

\* C12 (state part): a request answered 404 has called neither stage backend
\* and its session id is still not in the store.
C12_NotFoundState ==
    \A h \in DOMAIN turn :
        NotFound(h) =>
            /\ turn[h].analyst_run = None
            /\ turn[h].generator_run = None
            /\ turn[h].state = MultiAgentState(<<>>)
            /\ turn[h].session_id \notin DOMAIN store
\* C12 (step part): taking up continue_chat or get_chat_history with a
\* session id the store does not hold answers 404 in that very step, before
\* any graph node, and leaves the store as it was.
C12_NotFoundStep ==
    \A h \in DOMAIN turn :
        (TakesUpLookup(h) /\ turn'[h].session_id \notin DOMAIN store) =>
            /\ turn'[h].pc = "responded"
            /\ response'[h] = Some(HTTPError(404, turn'[h].session_id))
            /\ store' = store
\* C12: continue_chat and get_chat_history on a session id that is not in the
\* store fail with 404, run no stage and no backend, and leave the store
\* unchanged (no session is created for the id).
C12_UnknownSessionNotFound ==
    []C12_NotFoundState /\ [][C12_NotFoundStep]_vars
\* a continue_chat on an id the store lacks, answered 404, other sessions stored
C12_Witness ==
    \E h \in DOMAIN turn :
        /\ NotFound(h)
        /\ turn[h].kind = "continue"
        /\ store # <<>>
        /\ turn[h].session_id \notin DOMAIN store


\* ----------------------------------------------------------- tool gateway
\* bounds of the specification with tool calls
\* turns begun over the whole run
ToolTurns == 1
\* tool calls the generator agent makes in one run
MaxToolCalls == 2

\* all_tools: the search tools registered with the generator agent
all_tools ==
    { "n8n_workflows_search", "n8n_integrations_search",
      "n8n_core_search", "n8n_management_search" }
\* the webhook URL the settings hold for a tool
search_url(tool_name) == <<"url of", tool_name>>
\* queries the generator agent passes to a tool
ToolQueries == {<<"http request node">>}

\* what awaiting client.post can bring: an httpx exception or a response
WebhookReplies ==
    { [post |-> "ConnectError", status_code |-> 0, text |-> <<>>],
      [post |-> "ReadTimeout", status_code |-> 0, text |-> <<>>],
      [post |-> "response", status_code |-> 500, text |-> <<"server error">>],
      [post |-> "response", status_code |-> 200,
       text |-> <<"{", "results", "}">>],
      [post |-> "response", status_code |-> 200, text |-> <<"<html>">>] }

\* the classes an exception is an instance of
bases(exc) ==
    CASE exc = "ConnectError" ->
            {"ConnectError", "TransportError", "RequestError", "Exception"}
      [] exc = "ReadTimeout" ->
            {"ReadTimeout", "TimeoutException", "TransportError",
             "RequestError", "Exception"}
      [] exc = "HTTPStatusError" -> {"HTTPStatusError", "Exception"}
      [] exc = "JSONDecodeError" -> {"JSONDecodeError", "ValueError", "Exception"}
      [] OTHER -> {exc, "Exception"}
isinstance(exc, class) == class \in bases(exc)

\* how a piece of code ends: it returns a value or raises an exception
Return(value) == [kind |-> "return", value |-> value, exc |-> "none"]
Raise(exc) == [kind |-> "raise", value |-> [raised |-> exc], exc |-> exc]

\* ToolError(error=...).dict()
ToolError(error) == [error |-> error]

\* response.json(): the decoded body, or JSONDecodeError if it is not JSON
response_json(text) ==
    IF Len(text) >= 2 /\ text[1] = "{" /\ text[Len(text)] = "}"
    THEN Return([results |-> SubSeq(text, 2, Len(text) - 1)])
    ELSE Raise("JSONDecodeError")

\* the try block of call_n8n_webhook once the awaited post has ended
webhook_try(reply) ==
    IF reply.post # "response"
    THEN Raise(reply.post)
    ELSE IF reply.status_code \notin 200..299
         THEN Raise("HTTPStatusError")
         ELSE response_json(reply.text)

call_n8n_webhook_retrying(url, query, tool_name, reply) ==
    LET tried == webhook_try(reply)
    IN  IF tried.kind = "return"
        THEN tried
        ELSE IF isinstance(tried.exc, "HTTPStatusError")
             THEN Return(ToolError(<<"HTTP error occurred:", reply.text>>))
             ELSE IF isinstance(tried.exc, "RequestError")
                  THEN [kind |-> "post", value |-> [again |-> url], exc |-> "none"]
                  ELSE tried
\* call_n8n_webhook from the end of the awaited post: its try and its two
\* except clauses; an exception neither clause names leaves the function
call_n8n_webhook(url, query, tool_name, reply) ==
    LET tried == webhook_try(reply)
    IN  IF tried.kind = "return"
        THEN tried
        ELSE IF isinstance(tried.exc, "HTTPStatusError")
             THEN Return(ToolError(<<"HTTP error occurred:", reply.text>>))
             ELSE IF isinstance(tried.exc, "RequestError")
                  THEN Return(ToolError(
                           <<"An error occurred while requesting", url, tried.exc>>))
                  ELSE tried

\* the tool calls of the generator run handler h is in
Calls(h) == IF "calls" \in DOMAIN turn[h] THEN turn[h].calls ELSE <<>>
WithCalls(t, calls) ==
    [f \in DOMAIN t \cup {"calls"} |-> IF f = "calls" THEN calls ELSE t[f]]

\* the generator agent calls a search tool: call_n8n_webhook runs up to its
\* awaited client.post
tool_call(h, tool_name, query) ==
    /\ turn[h].pc = "workflow_generator"
    /\ ~no_complete_requirements(turn[h].state)
    /\ Len(Calls(h)) < MaxToolCalls
    /\ turn' = [turn EXCEPT ![h] = WithCalls(@, Append(Calls(h),
                   [ tool_name |-> tool_name, url |-> search_url(tool_name),
                     query |-> query, pc |-> "posted", requests |-> 1,
                     reply |-> None, outcome |-> None ]))]
    /\ UNCHANGED <<store, now, response, nextSid, turns>>

\* the awaited post of call i ends and call_n8n_webhook runs to its end
webhook_replies(h, i, reply) ==
    /\ turn[h].pc = "workflow_generator"
    /\ i \in 1..Len(Calls(h))
    /\ Calls(h)[i].pc = "posted"
    /\ LET call == Calls(h)[i]
           after == call_n8n_webhook(call.url, call.query, call.tool_name, reply)
       IN  turn' = [turn EXCEPT ![h] = WithCalls(@, [Calls(h) EXCEPT ![i] =
                  IF after.kind = "post"
                  THEN [call EXCEPT !.requests = @ + 1]
                  ELSE [call EXCEPT !.pc = "done", !.reply = Some(reply),
                                    !.outcome = Some(after)]])]
    /\ UNCHANGED <<store, now, response, nextSid, turns>>

agent_runs_first_result(calls) ==
    LET raised == {i \in 1..Len(calls) :
                      calls[i].pc = "done" /\ Get(calls[i].outcome).kind = "raise"}
    IN  IF raised # {}
        THEN {[ok |-> FALSE, out |-> <<Get(calls[i].outcome).exc>>] : i \in raised}
        ELSE IF calls = <<>> \/ \E i \in 1..Len(calls) : calls[i].pc = "done"
             THEN GeneratorRuns
             ELSE {}
\* the outcomes workflow_generator.run can have after these tool calls: an
\* exception leaving a tool function leaves the run; otherwise the model
\* backend decides
agent_runs(calls) ==
    LET raised == {i \in 1..Len(calls) :
                      calls[i].pc = "done" /\ Get(calls[i].outcome).kind = "raise"}
    IN  IF raised # {}
        THEN {[ok |-> FALSE, out |-> <<Get(calls[i].outcome).exc>>] : i \in raised}
        ELSE IF \A i \in 1..Len(calls) : calls[i].pc = "done"
             THEN GeneratorRuns
             ELSE {}

\* the generator node with the tool calls of its agent run
workflow_generator_run(h, run) ==
    /\ run \in agent_runs(Calls(h))
    /\ workflow_generator(h, run)

ToolRuns ==
    GeneratorRuns \cup [ok : {FALSE}, out : {<<"JSONDecodeError">>}]

NextTools ==
    \/ \E h \in Handlers, q \in ServerTexts :
          turns < ToolTurns /\ start_chat(h, q)
    \/ \E h \in Handlers, run \in AnalystRuns : requirements_analyst(h, run)
    \/ \E h \in Handlers, t \in all_tools, q \in ToolQueries : tool_call(h, t, q)
    \/ \E h \in Handlers, i \in 1..MaxToolCalls, reply \in WebhookReplies :
          webhook_replies(h, i, reply)
    \/ \E h \in Handlers, run \in ToolRuns : workflow_generator_run(h, run)
    \/ \E h \in Handlers : respond(h)

\* one turn with the search tool calls of its generator run
SpecTools == Init /\ [][NextTools]_vars


\* ------------------------------------------------- claims on the tool calls
\* the backend failed this request: no connection, timeout, status outside
\* 2xx, or a body that is not JSON
BackendFailed(reply) ==
    \/ reply.post # "response"
    \/ reply.status_code \notin 200..299
    \/ response_json(reply.text).kind = "raise"
\* "error" in result, the test of a ToolError value
IsToolError(value) == "error" \in DOMAIN value
\* call i of handler h's generator run has ended
CallDone(h, i) == i \in 1..Len(Calls(h)) /\ Calls(h)[i].pc = "done"
\* some tool call of handler h's generator run met a failing backend
ToolFailed(h) ==
    \E i \in 1..Len(Calls(h)) :
        CallDone(h, i) /\ BackendFailed(Get(Calls(h)[i].reply))
\* the generator's own model backend raised
GeneratorBackendFailed(h) ==
    /\ IsSet(turn[h].generator_run)
    /\ ~Get(turn[h].generator_run).ok
    /\ Get(turn[h].generator_run).out \in Faults

\* C13: every tool call whose backend fails (connection failure, timeout,
\* non-2xx status, malformed body) ends by returning a ToolError value; no
\* exception leaves call_n8n_webhook.
C13_EveryFailureBecomesToolError ==
    \A h \in DOMAIN turn : \A i \in 1..Len(Calls(h)) :
        CallDone(h, i) =>
            /\ Get(Calls(h)[i].outcome).kind = "return"
            /\ BackendFailed(Get(Calls(h)[i].reply)) =>
                  IsToolError(Get(Calls(h)[i].outcome).value)

\* C14: a turn in which a tool call failed while the generator's own backend
\* did not fail ends without error_message: the generation stage completes.
C14_ToolFailureNeverEndsTurnInError ==
    \A h \in DOMAIN turn :
        (GraphReturned(h) /\ ToolFailed(h) /\ ~GeneratorBackendFailed(h)) =>
            /\ ~IsSet(turn[h].state.error_message)
            /\ Responded(h) => ~IsSet(Get(response[h]).metadata.error)

\* C16: a tool call posts one request to its backend and never a second one,
\* whether the request succeeded or failed.
C16_AtMostOneRequestPerCall ==
    \A h \in DOMAIN turn : \A i \in 1..Len(Calls(h)) :
        /\ Calls(h)[i].requests = 1
        /\ Calls(h)[i].pc = "posted" => ~IsSet(Calls(h)[i].outcome)
\* a run with one call that failed for lack of a connection and one that
\* succeeded, both ended after their single request
C16_Witness ==
    \E h \in DOMAIN turn : \E i, j \in 1..Len(Calls(h)) :
        /\ CallDone(h, i) /\ CallDone(h, j)
        /\ Get(Calls(h)[i].reply).post = "ConnectError"
        /\ IsToolError(Get(Calls(h)[i].outcome).value)
        /\ ~BackendFailed(Get(Calls(h)[j].reply))
        /\ Calls(h)[i].requests = 1 /\ Calls(h)[j].requests = 1


\* -------------------------------------------------------- unfinished turns
\* handler h awaits the graph: its turn has begun and is not yet answered
InFlight(h) ==
    turn[h].pc \in {"requirements_analyst", "workflow_generator", "__end__"}
\* handler h's turn was cancelled while it awaited the graph
Cancelled(h) == turn[h].pc = "idle" /\ turn[h].kind = "cancelled"
\* this step is a step of handler h's turn that leaves it unanswered: the
\* turn is in flight after it (and can be cancelled there) or is cancelled by it
UnfinishedStep(h) ==
    /\ turn'[h] # turn[h]
    /\ \/ InFlight(h)'
       \/ Cancelled(h)'
\* the sessions and their transcripts, without the last-touched times
Transcripts == [sid \in DOMAIN store |-> store[sid].history]

\* C17 as stated: a step of a turn that leaves the turn unfinished leaves the
\* session store exactly as it was, so a turn cancelled in flight has changed
\* nothing in the store.
C17_UnfinishedTurnLeavesStoreUntouched ==
    [][\A h \in DOMAIN turn : UnfinishedStep(h) => store' = store]_vars

\* C17 (state part): every stored transcript is made of whole turns, and the
\* session of a start_chat turn in flight does not exist in the store.
C17_NoPartialState ==
    /\ \A sid \in DOMAIN store : Alternates(store[sid].history)
    /\ \A h \in DOMAIN turn :
          (InFlight(h) /\ turn[h].kind = "start") =>
              turn[h].session_id \notin DOMAIN store
\* C17 (step part): a step of a turn that leaves the turn unfinished creates
\* no session and changes no transcript; the only thing it may change in the
\* store is the last-touched time of the session continue_chat has read.
C17_NoPartialStep ==
    \A h \in DOMAIN turn :
        UnfinishedStep(h) =>
            /\ Transcripts' = Transcripts
            /\ \A sid \in DOMAIN store :
                  store'[sid] # store[sid] =>
                      /\ turn'[h].kind = "continue"
                      /\ turn'[h].session_id = sid
                      /\ store'[sid].ts = now
\* C17 (amended): a turn cancelled in flight leaves the sessions and their
\* transcripts as they were before it; a cancelled continue_chat has only
\* refreshed the last-touched time of its session.
C17_CancelledTurnLeavesTranscripts ==
    []C17_NoPartialState /\ [][C17_NoPartialStep]_vars
\* a cancelled start_chat: its session id was handed out, no handler is in
\* flight, and the store holds other sessions but not that one
C17_Witness ==
    /\ \E h \in DOMAIN turn : Cancelled(h)
    /\ \A h \in DOMAIN turn : ~InFlight(h)
    /\ store # <<>>
    /\ Cardinality(DOMAIN store) < nextSid - 1


\* ------------------------------------------------------ overlapping turns
\* the length of the transcript handler h's continue_chat turn has read
ReadLength(h) == user_message_count(turn[h].state.messages) - 1

\* C18: two turns on one session id are never in flight together, and the
\* transcript a continue_chat turn has read is still the stored transcript
\* of its session for as long as the turn is in flight.
C18_SingleWriterPerSession ==
    /\ \A h1, h2 \in DOMAIN turn :
          (h1 # h2 /\ InFlight(h1) /\ InFlight(h2)) =>
              turn[h1].session_id # turn[h2].session_id
    /\ \A h \in DOMAIN turn :
          (InFlight(h) /\ turn[h].kind = "continue") =>
              ReadLength(h) = Len(Transcript(turn[h].session_id))


\* ------------------------------------------------------ separate sessions
\* the messages handler h's turn gave to the graph, rebuilt from its own
\* session: the new text after the part of the transcript the turn has read
TurnInput(h) ==
    IF turn[h].kind = "start"
    THEN <<HumanMessage(turn[h].text)>>
    ELSE reconstruct_messages(
             SubSeq(Transcript(turn[h].session_id), 1, ReadLength(h)),
             turn[h].text)
\* the graph result computed from that input and the turn's two backend runs
Replay(h) ==
    LET s0 == MultiAgentState(TurnInput(h))
        s1 == apply_update(s0, requirements_analyst_node(s0, Get(turn[h].analyst_run)))
    IN  IF route_next_step(s1) = "workflow_generator"
        THEN apply_update(s1, workflow_generator_node(s1, Get(turn[h].generator_run)))
        ELSE s1

\* C19 (state part): the result of a turn is the graph run on its own
\* session's transcript, its own text and its own backend runs, whatever
\* turns ran on other sessions meanwhile.
C19_ResultFromOwnSession ==
    \A h \in DOMAIN turn :
        GraphReturned(h) => turn[h].state = Replay(h)
\* C19 (step part): a step of a handler leaves every stored session other
\* than the handler's own as it was, transcript and last-touched time, and
\* no session changes without a handler stepping on it.
C19_OtherSessionsStep ==
    /\ \A h \in DOMAIN turn :
          turn'[h] # turn[h] =>
              \A b \in DOMAIN store :
                  b # turn'[h].session_id =>
                      /\ b \in DOMAIN store'
                      /\ store'[b] = store[b]
    /\ \A b \in DOMAIN store' :
          (b \notin DOMAIN store \/ store'[b] # store[b]) =>
              \E h \in DOMAIN turn :
                  turn'[h] # turn[h] /\ turn'[h].session_id = b
\* C19: turns on different session ids do not interfere under any
\* interleaving: a read or append on one session leaves the transcript and
\* the last-touched time of every other session unchanged, and a turn's
\* result depends only on its own session.
C19_SessionsDoNotInterfere ==
    []C19_ResultFromOwnSession /\ [][C19_OtherSessionsStep]_vars
\* a turn answered on one session while a continue_chat turn is in flight on
\* another, the two sessions last touched at different times
C19_Witness ==
    \E h1, h2 \in DOMAIN turn :
        /\ Responded(h1)
        /\ InFlight(h2) /\ turn[h2].kind = "continue"
        /\ turn[h1].session_id # turn[h2].session_id
        /\ turn[h1].session_id \in DOMAIN store
        /\ store[turn[h1].session_id].ts # store[turn[h2].session_id].ts


\* ------------------------------------------------ requirements per session
\* an answered turn of the session reached the generator, hence had
\* synthesized complete requirements: its stored reply is the workflow
\* message or the generator's error text
SnapshotInEarlierTurn(session_id) ==
    \E i \in 1..Len(Transcript(session_id)) :
        LET entry == Transcript(session_id)[i]
        IN  /\ entry.role = "assistant"
            /\ \/ startswith(entry.content, "Here's your complete n8n workflow:")
               \/ startswith(entry.content, "Error generating workflow:")

\* C20: over all turns of one session complete requirements are synthesized
\* at most once: a turn in flight on a session on which an earlier turn
\* already synthesized them holds no requirements of its own.
C20_RequirementsOncePerSession ==
    \A h \in DOMAIN turn :
        (InFlight(h) /\ SnapshotInEarlierTurn(turn[h].session_id)) =>
            ~IsSet(turn[h].state.requirements)


\* ------------------------------------------------------- start of a turn
\* handler h's turn has begun and no graph node has run yet
AtTurnStart(h) == turn[h].pc = "requirements_analyst"
\* the stored transcript with the new text after it, every entry as a
\* human message
TranscriptPlus(session_id, text) ==
    LET hist == Transcript(session_id)
    IN  [i \in 1..(Len(hist) + 1) |->
            [type |-> "human",
             content |-> IF i <= Len(hist) THEN hist[i].content ELSE text]]

\* C21: at the start of every turn the graph state holds the messages of the
\* stored transcript followed by the new user message, step
\* analyze_requirements, no requirements, no workflow and no error, however
\* the previous turn of the session ended.
C21_TurnStartsFresh ==
    \A h \in DOMAIN turn :
        AtTurnStart(h) =>
            /\ turn[h].state.messages =
                   TranscriptPlus(turn[h].session_id, turn[h].text)
            /\ Stage(turn[h].state.step) = "Analyzing"
            /\ ~IsSet(turn[h].state.requirements)
            /\ ~IsSet(turn[h].state.final_workflow)
            /\ ~IsSet(turn[h].state.error_message)
            /\ turn[h].analyst_run = None
            /\ turn[h].generator_run = None
\* a turn starting on a session whose previous turn ended with a generation
\* error after an earlier clarification turn
C21_Witness ==
    \E h \in DOMAIN turn :
        /\ AtTurnStart(h)
        /\ turn[h].kind = "continue"
        /\ Len(Transcript(turn[h].session_id)) = 4
        /\ startswith(Transcript(turn[h].session_id)[4].content,
                      "Error generating workflow:")
        /\ Transcript(turn[h].session_id)[2].content \in AnalystOutputs


\* ------------------------------------------------------ order of the stages
\* assistant messages the graph nodes have added in handler h's turn
StageMessages(h) ==
    Cardinality({i \in DOMAIN turn[h].state.messages :
                    turn[h].state.messages[i].type = "ai"})

\* C22 (state part): before the analyst node no stage has run; the generator
\* node is reached only with the analyst's run returned and complete
\* requirements, and with no generator run yet; once the generator has been
\* called the graph has ended; each stage has added at most one message.
C22_StagesState ==
    \A h \in DOMAIN turn :
        /\ AtTurnStart(h) =>
              ~IsSet(turn[h].analyst_run) /\ ~GeneratorInvoked(h)
        /\ turn[h].pc = "workflow_generator" =>
              /\ AnalystReturned(h)
              /\ IsSet(turn[h].state.requirements)
              /\ Get(turn[h].state.requirements).is_complete
              /\ ~GeneratorInvoked(h)
              /\ StageMessages(h) = 1
        /\ GeneratorInvoked(h) =>
              /\ turn[h].pc \in {"__end__", "responded"}
              /\ AnalystReturned(h)
              /\ StageMessages(h) = 2
        /\ InTurn(h) => StageMessages(h) <= 2
\* C22 (step part): a turn moves from the analyst node to the generator node
\* or to the end, from the generator node to the end only, and from the end
\* to the answer; a stage's run, once made, is not made again in the turn.
C22_StagesStep ==
    \A h \in DOMAIN turn :
        (InFlight(h) /\ turn'[h] # turn[h] /\ turn'[h].pc # "idle") =>
            /\ turn[h].pc = "requirements_analyst" =>
                  /\ turn'[h].pc \in {"workflow_generator", "__end__"}
                  /\ IsSet(turn'[h].analyst_run)
                  /\ turn'[h].generator_run = None
            /\ turn[h].pc = "workflow_generator" =>
                  /\ turn'[h].pc = "__end__"
                  /\ turn'[h].analyst_run = turn[h].analyst_run
            /\ turn[h].pc = "__end__" =>
                  /\ turn'[h].pc = "responded"
                  /\ turn'[h].state = turn[h].state
                  /\ turn'[h].analyst_run = turn[h].analyst_run
                  /\ turn'[h].generator_run = turn[h].generator_run
\* C22: within one turn the requirements stage runs at most once, the
\* generation stage at most once and only after the requirements stage of
\* that turn returned complete requirements, and no stage follows generation.
C22_StagesRunInOrder ==
    []C22_StagesState /\ [][C22_StagesStep]_vars
\* a turn in which both stages ran, answered
C22_Witness ==
    \E h \in DOMAIN turn :
        /\ Responded(h)
        /\ AnalystReturned(h)
        /\ GeneratorInvoked(h)
        /\ StageMessages(h) = 2


\* ------------------------------------------------- stages and the store
\* this step is a graph node of handler h's turn running
StageStep(h) ==
    /\ turn[h].pc \in {"requirements_analyst", "workflow_generator"}
    /\ turn'[h] # turn[h]
    /\ turn'[h].pc \in {"workflow_generator", "__end__"}
\* this step is handler h answering after its graph has returned
AnswerStep(h) == turn[h].pc = "__end__" /\ turn'[h].pc = "responded"

\* C23: a step in which a stage of a turn runs leaves the whole session
\* store as it was, and the transcripts change only in the step in which a
\* handler answers after its graph has returned.
C23_StagesLeaveStore ==
    [][ /\ \A h \in DOMAIN turn : StageStep(h) => store' = store
        /\ Transcripts' # Transcripts =>
              \E h \in DOMAIN turn : AnswerStep(h) ]_vars
\* both stages have run for a continue_chat turn that is not yet answered,
\* while the store holds the transcript the turn started from
C23_Witness ==
    \E h \in DOMAIN turn :
        /\ turn[h].pc = "__end__"
        /\ turn[h].kind = "continue"
        /\ GeneratorInvoked(h)
        /\ Len(Transcript(turn[h].session_id)) = ReadLength(h)


\* ------------------------------------------------ generation and its inputs
\* the graph state handler h's generator node was given: the state it left,
\* without the message and the results the node added
GeneratorInput(h) ==
    [ turn[h].state EXCEPT
          !.messages = SubSeq(@, 1, Len(@) - 1),
          !.step = "generate_workflow",
          !.final_workflow = None,
          !.error_message = None ]

ttl_seconds == 86400
\* bounds of the specification with the cleanup loop
\* turns begun over the whole run
ReapTurns == 2
\* the clock is read within this many seconds of time 0 and of time TTL
MaxLate == 1
\* the amounts of time that pass between two events: a second, or the TTL
ClockSteps == {1, ttl_seconds}

cleanup_at_ttl(st, t) ==
    [k \in {j \in DOMAIN st : ~(t - st[j].ts >= ttl_seconds)} |-> st[k]]
\* one pass of _cleanup_loop: pop every entry idle for longer than the TTL
cleanup(st, t) ==
    [k \in {j \in DOMAIN st : ~(t - st[j].ts > ttl_seconds)} |-> st[k]]

\* _cleanup_loop wakes from its sleep and makes a pass (the loop is started
\* at an unknown time, so a pass can come at any reading of the clock)
cleanup_loop ==
    /\ store' = cleanup(store, now)
    /\ UNCHANGED <<now, turn, response, nextSid, turns>>

\* time.time() advances by d seconds
elapse(d) ==
    /\ now + d <= ttl_seconds + MaxLate
    /\ (now + d) % ttl_seconds <= MaxLate
    /\ now' = now + d
    /\ UNCHANGED <<store, turn, response, nextSid, turns>>

NextReap ==
    \/ \E h \in Handlers, q \in ServerTexts :
          turns < ReapTurns /\ start_chat(h, q)
    \/ \E h \in Handlers, sid \in SessionIds, m \in ServerTexts :
          turns < ReapTurns /\ continue_chat(h, sid, m)
    \/ \E h \in Handlers, sid \in SessionIds : get_chat_history(h, sid)
    \/ \E h \in Handlers, run \in AnalystRuns : requirements_analyst(h, run)
    \/ \E h \in Handlers, run \in GeneratorRuns : workflow_generator(h, run)
    \/ \E h \in Handlers : respond(h)
    \/ \E d \in ClockSteps : elapse(d)
    \/ cleanup_loop

\* one request at a time, with the clock and the cleanup loop of the store
SpecReap == Init /\ [][NextReap]_vars


\* how long a stored session has been idle
Idle(session_id) == now - store[session_id].ts

\* C25 (step part): a read of an existing session (continue_chat,
\* get_chat_history) re-stamps it with the clock and keeps its transcript; an
\* answered turn leaves its session stored, created if absent, stamped with
\* the clock; a session leaves the store only when it has been idle for more
\* than the TTL, and the step that removes one removes exactly the sessions
\* idle for more than the TTL and changes no other.
C25_ExpiryStep ==
    /\ \A h \in DOMAIN turn :
          (TakesUpLookup(h) /\ turn'[h].session_id \in DOMAIN store) =>
              store'[turn'[h].session_id] =
                  [ts |-> now, history |-> Transcript(turn'[h].session_id)]
    /\ \A h \in DOMAIN turn :
          (AnswerStep(h) /\ Get(response'[h]).status = 200) =>
              /\ turn[h].session_id \in DOMAIN store'
              /\ store'[turn[h].session_id].ts = now
    /\ \A sid \in DOMAIN store :
          sid \notin DOMAIN store' =>
              /\ Idle(sid) > ttl_seconds
              /\ DOMAIN store' = {k \in DOMAIN store : Idle(k) <= ttl_seconds}
              /\ \A k \in DOMAIN store' : store'[k] = store[k]
\* C25: every get and every append on an existing session resets its
\* last-touched time to now, append creates the session if absent, and a
\* cleanup pass removes exactly the sessions idle for more than the TTL of
\* 24 h; a session touched within the TTL is never removed.
C25_SessionExpiry ==
    [](\A sid \in DOMAIN store : store[sid].ts <= now)
    /\ [][C25_ExpiryStep]_vars
\* a session was removed by the cleanup loop while another one, idle for
\* exactly the TTL, is still stored
C25_Witness ==
    /\ \A h \in DOMAIN turn : Free(h)
    /\ Cardinality(DOMAIN store) < nextSid - 1
    /\ \E sid \in DOMAIN store : Idle(sid) = ttl_seconds


\* ------------------------------------------------------------- append-only
IsPrefix(s, t) == Len(s) <= Len(t) /\ SubSeq(t, 1, Len(s)) = s

\* C26: from one state to the next the transcript of every session that
\* stays in the store keeps all its entries, unchanged and in place, as a
\* prefix of the new transcript; whatever the step (read, append, history
\* read, turn on any session, cleanup pass), so the transcript at an earlier
\* time is a prefix of the transcript at any later time until the session is
\* removed by the cleanup loop.
C26_TranscriptsAppendOnly ==
    [][\A sid \in DOMAIN store :
           sid \in DOMAIN store' =>
               IsPrefix(store[sid].history, store'[sid].history)]_vars
\* a session continued a day after it was started: its transcript has grown
\* from two entries to four
C26_Witness ==
    \E sid \in DOMAIN store :
        /\ Len(store[sid].history) = 4
        /\ store[sid].ts >= ttl_seconds


\* ------------------------------------------------- awaiting the tool calls
\* the generator run of handler h has ended
RunEnded(h) == IsSet(turn[h].generator_run)
\* the same calls taken in another order
Reordered(calls, p) == [i \in 1..Len(calls) |-> calls[p[i]]]

C28_ReportedStageNeverGenerating ==
    \A h \in Handlers :
        /\ GraphReturned(h) =>
              /\ Stage(turn[h].state.step) \in {"Analyzing", "Done"}
              /\ Generating(h) => Stage(turn[h].state.step) = "Done"
        /\ (Responded(h) /\ Get(response[h]).status = 200) =>
              /\ Get(response[h]).current_agent = turn[h].state.step
              /\ Stage(Get(response[h]).current_agent) \in {"Analyzing", "Done"}
\* a later turn of a session went through the generator, which returned, and
\* was answered with stage Done
C28_Witness ==
    \E h \in Handlers :
        /\ Responded(h)
        /\ turn[h].kind = "continue"
        /\ GeneratorReturned(h)
        /\ Stage(Get(response[h]).current_agent) = "Done"


\* ------------------------------------------------ purpose of a marked output
\* C29 (as stated): whenever the analyst output starts with the completion
\* marker, the requirements built from it are complete and their purpose is
\* the rest of that output after the leading marker, stripped.
C29_MarkedOutputPurposeIsRemainder ==
    \A h \in Handlers :
        AnalystMarked(h) =>
            /\ IsSet(turn[h].state.requirements)
            /\ Get(turn[h].state.requirements).is_complete
            /\ Get(turn[h].state.requirements).workflow_purpose
                   = strip(Tail(Get(turn[h].analyst_run).out))


\* ------------------------------------------------- the count of user turns
\* the analyst node has run in the turn handler h serves
AnalystRan(h) == InTurn(h) /\ IsSet(turn[h].analyst_run)
\* entries the session's transcript held when the turn of handler h began
StoredBefore(h) ==
    Len(Transcript(turn[h].session_id)) - (IF turn[h].pc = "responded" THEN 2 ELSE 0)

AtThreshold(h) == user_message_count(turn[h].state.messages) >= ForcedExchanges

\* C31: a turn whose analyst backend raised ends with the analysis error: no
\* requirements, the generator neither routed to nor run, the error text as
\* the last message instead of the forced completion; this on every turn,
\* those at or above the forced-progression threshold included.
C31_AnalystFailureNeverForced ==
    \A h \in Handlers :
        (InTurn(h) /\ AnalystFailed(h)) =>
            LET st == turn[h].state
                fault == Get(turn[h].analyst_run).out
            IN  /\ turn[h].pc # "workflow_generator"
                /\ ~GeneratorInvoked(h)
                /\ ~IsSet(st.requirements)
                /\ ~IsSet(st.final_workflow)
                /\ st.step = "complete"
                /\ st.error_message = Some(<<"Error in requirements analysis:">> \o fault)
                /\ st.messages[Len(st.messages)] = AIMessage(Get(st.error_message))
                /\ Responded(h) =>
                      /\ ~Get(response[h]).metadata.requirements_complete
                      /\ ~Get(response[h]).metadata.workflow_generated
                      /\ Get(response[h]).metadata.error = st.error_message
\* the analyst backend raised on a turn that counts five user messages, and
\* the turn was answered with the analysis error
C31_Witness ==
    \E h \in Handlers :
        /\ Responded(h)
        /\ AnalystFailed(h)
        /\ AtThreshold(h)
        /\ IsSet(Get(response[h]).metadata.error)


\* ------------------------------------------- the two appends of a turn
\* this step appends to session sid the user entry and the assistant entry
\* of the turn handler h has just answered, and nothing else
AppendsPairOf(h, sid) ==
    /\ turn[h].pc = "__end__"
    /\ turn'[h].pc = "responded"
    /\ turn[h].session_id = sid
    /\ IsSet(last_message(turn[h].state))
    /\ Transcript(sid)' =
           Transcript(sid)
           \o << [role |-> "user", content |-> turn[h].text],
                 [role |-> "assistant",
                  content |-> Get(last_message(turn[h].state)).content] >>
C32_PairsState ==
    \A sid \in DOMAIN store :
        /\ Len(store[sid].history) >= 2
        /\ Alternates(store[sid].history)
C32_PairsStep ==
    \A sid \in SessionIds :
        Transcript(sid)' # Transcript(sid) =>
            /\ \E h \in DOMAIN turn : AppendsPairOf(h, sid)
            /\ \A other \in SessionIds \ {sid} :
                  Transcript(other)' = Transcript(other)
\* C32: with turns in flight together, on one session or on several, every
\* stored transcript has even length of at least 2 and alternates user,
\* assistant; a transcript changes only by one turn's user entry followed at
\* once by that turn's assistant entry, in a single step that changes no
\* other transcript, so the entries of two turns are never interleaved.
C32_TurnEntriesAppendedTogether ==
    []C32_PairsState /\ [][C32_PairsStep]_vars
\* two continue_chat turns read the same two-entry transcript of one session
\* while both were in flight, both were answered, and the transcript holds
\* six alternating entries
C32_Witness ==
    \E h1, h2 \in DOMAIN turn :
        /\ h1 # h2
        /\ Responded(h1) /\ Responded(h2)
        /\ turn[h1].kind = "continue" /\ turn[h2].kind = "continue"
        /\ turn[h1].session_id = turn[h2].session_id
        /\ ReadLength(h1) = 2 /\ ReadLength(h2) = 2
        /\ Len(Transcript(turn[h1].session_id)) = 6
        /\ Alternates(Transcript(turn[h1].session_id))


\* ------------------------------------------- the assistant entry of a turn
\* the assistant entries of a transcript
AssistantEntries(history) == SelectSeq(history, LAMBDA e : e.role = "assistant")
\* the message the analyst node added to the graph messages of handler h's
\* turn: the first message after those the turn began with
AnalystMessage(h) ==
    turn[h].state.messages[user_message_count(turn[h].state.messages) + 1]

C33_AssistantEntryState ==
    /\ \A sid \in DOMAIN store : \A i \in 1..Len(store[sid].history) :
          store[sid].history[i].role = "assistant" =>
              ~startswith(store[sid].history[i].content, COMPLETE)
    /\ \A h \in Handlers :
          (Responded(h) /\ GeneratorInvoked(h)) =>
              LET entry == Tail2(turn[h].session_id)[2]
              IN  /\ startswith(AnalystMessage(h).content, COMPLETE)
                  /\ entry.content # AnalystMessage(h).content
                  /\ entry.content =
                         turn[h].state.messages[Len(turn[h].state.messages)].content
                  /\ Len(turn[h].state.messages)
                         = user_message_count(turn[h].state.messages) + 2
C33_AssistantEntryStep ==
    \A h \in Handlers :
        (turn[h].pc = "__end__" /\ turn'[h].pc = "responded"
         /\ Get(response'[h]).status = 200) =>
            LET sid == turn[h].session_id
                before == AssistantEntries(Transcript(sid))
                after == AssistantEntries(Transcript(sid)')
            IN  /\ Len(Transcript(sid)') = Len(Transcript(sid)) + 2
                /\ after = Append(before, Get(Get(response'[h]).message))
                /\ Get(Get(response'[h]).message).content =
                       Get(last_message(turn[h].state)).content
\* C33: answering a turn stores exactly one assistant entry, equal to the
\* message of the response, which is the last message of the graph result;
\* when the generator ran, that is the generator's message and not the
\* analyst's marked message, and no stored assistant entry starts with the
\* completion marker.
C33_OneAssistantEntryPerTurn ==
    []C33_AssistantEntryState /\ [][C33_AssistantEntryStep]_vars
\* a turn whose analyst output was marked and whose generator returned: the
\* stored assistant entry is the workflow message, the marked message is in
\* the graph messages only
C33_Witness ==
    \E h \in Handlers :
        /\ Responded(h)
        /\ AnalystMarked(h)
        /\ GeneratorReturned(h)
        /\ AnalystMessage(h).content = Get(turn[h].analyst_run).out
        /\ Tail2(turn[h].session_id)[2].content
               = workflow_update(Get(turn[h].generator_run).out).messages[1].content


\* ------------------------------------------------ flags of a turn response
\* C34: in the response of a turn, workflow_generated implies
\* requirements_complete; a response without conversation_complete has
\* neither requirements_complete nor workflow_generated nor an error; and
\* requirements_complete without workflow_generated happens only when the
\* generator was run and failed.
C34_ResponseFlagsConsistent ==
    \A h \in Handlers :
        (Responded(h) /\ Get(response[h]).status = 200) =>
            LET r == Get(response[h])
                md == r.metadata
            IN  /\ md.workflow_generated => md.requirements_complete
                /\ ~r.conversation_complete =>
                      /\ ~md.requirements_complete
                      /\ ~md.workflow_generated
                      /\ ~IsSet(md.error)
                /\ (md.requirements_complete /\ ~md.workflow_generated) =>
                      /\ GeneratorFailed(h)
                      /\ IsSet(md.error)
\* a forced turn whose generator failed: requirements_complete is reported
\* without a workflow, with the generation error
C34_Witness ==
    \E h \in Handlers :
        /\ Responded(h)
        /\ AnalystUnmarked(h)
        /\ GeneratorFailed(h)
        /\ Get(response[h]).metadata.requirements_complete
        /\ ~Get(response[h]).metadata.workflow_generated
        /\ IsSet(Get(response[h]).metadata.error)


\* ------------------------------------------------- expiry only by the loop
\* C35 (step part): a continue_chat or get_chat_history on a stored session
\* is served however long the session has been idle: it is not answered 404,
\* it works on the stored transcript, and it leaves the session stamped with
\* the clock; and a session leaves the store only in a step of the cleanup
\* loop, in which no handler moves.
C35_ServedStep ==
    /\ \A h \in DOMAIN turn :
          (TakesUpLookup(h) /\ turn'[h].session_id \in DOMAIN store) =>
              LET sid == turn'[h].session_id
              IN  /\ ~(IsSet(response'[h]) /\ Get(response'[h]).status = 404)
                  /\ sid \in DOMAIN store'
                  /\ store'[sid].ts = now
                  /\ turn'[h].kind = "history" =>
                        Get(response'[h]).messages = store[sid].history
                  /\ turn'[h].kind = "continue" =>
                        /\ turn'[h].pc = "requirements_analyst"
                        /\ Len(turn'[h].state.messages)
                               = Len(store[sid].history) + 1
    /\ (\E sid \in DOMAIN store : sid \notin DOMAIN store') =>
          /\ turn' = turn
          /\ response' = response
          /\ store' = cleanup(store, now)
\* C35: sessions expire only through the cleanup loop. A stored session is
\* served by continue_chat and get_chat_history whatever its idle time, the
\* access re-stamps it, and a session stamped at the current clock reading is
\* kept by a cleanup pass.
C35_ExpiryOnlyByCleanup ==
    [](\A sid \in DOMAIN store :
           store[sid].ts = now => sid \in DOMAIN cleanup(store, now))
    /\ [][C35_ServedStep]_vars
\* two sessions were created within the first second; a day later the first
\* was read, which stamped it at the TTL plus one second, and the cleanup
\* pass that removed the second one kept it
C35_Witness ==
    \E h \in DOMAIN turn :
        /\ HistoryRead(h)
        /\ turn[h].session_id = 1
        /\ nextSid = 3
        /\ DOMAIN store = {1}
        /\ now = ttl_seconds + 1
        /\ store[1].ts = ttl_seconds + 1


\* ------------------------------------------------- the interactive client
\* bounds of the specification with the interactive client
\* messages the user types over the whole run
ClientInputs == 3
\* the slot of the turn variable that holds the MultiAgentChat object
Chat == 0

\* MultiAgentChat.__init__; data is the body of the last response parsed
MultiAgentChat ==
    [ session_id |-> None, conversation_complete |-> FALSE, data |-> None ]

\* start_conversation from the end of requests.post: raise_for_status raises
\* a RequestException on a status of 400 and above, which leaves the object
\* as it is and returns False
start_conversation(chat, r) ==
    IF r.status >= 400
    THEN [ok |-> FALSE, chat |-> chat]
    ELSE [ok |-> TRUE,
          chat |-> [ session_id |-> Some(r.session_id),
                     conversation_complete |-> r.conversation_complete,
                     data |-> Some(r) ]]
continue_conversation_keeping_session(chat, r) ==
    [ok |-> FALSE,
     chat |-> IF r.status >= 400
              THEN chat
              ELSE [chat EXCEPT !.conversation_complete = r.conversation_complete,
                                !.data = Some(r)]]
\* continue_conversation from the end of requests.post
continue_conversation(chat, r) ==
    IF r.status >= 400
    THEN [ok |-> FALSE, chat |-> chat]
    ELSE [ok |-> TRUE,
          chat |-> [chat EXCEPT !.conversation_complete = r.conversation_complete,
                                !.data = Some(r)]]
\* run, after start_conversation or continue_conversation has returned:
\* "if self.conversation_complete: self.session_id = None"
run_reset(returned) ==
    IF returned.ok /\ returned.chat.conversation_complete
    THEN [returned.chat EXCEPT !.session_id = None]
    ELSE returned.chat

\* the client has given up on the request handler h serves (requests timeout)
Abandoned(h) == "abandoned" \in DOMAIN turn[h]
Abandon(t) ==
    [f \in DOMAIN t \cup {"abandoned"} |-> IF f = "abandoned" THEN TRUE ELSE t[f]]
\* the client is blocked in requests.post / requests.get on handler h
Awaited(h) == turn[h].pc # "idle" /\ ~Abandoned(h)
AtPrompt == \A h \in Handlers : ~Awaited(h)

\* run: the user types a message, which is posted to /chat/start or to
\* /chat/continue
run_message(h, user_input) ==
    /\ AtPrompt
    /\ turn[h].pc = "idle" \/ Abandoned(h)
    /\ turns < ClientInputs
    /\ IF ~IsSet(turn[Chat].session_id) \/ turn[Chat].conversation_complete
       THEN start_chat(h, user_input)
       ELSE continue_chat(h, Get(turn[Chat].session_id), user_input)
\* run: the user types /new
run_new ==
    /\ AtPrompt
    /\ turn' = [turn EXCEPT ![Chat].session_id = None,
                            ![Chat].conversation_complete = FALSE]
    /\ UNCHANGED <<store, now, response, nextSid, turns>>
\* run: the user types /history
run_history(h) ==
    /\ AtPrompt
    /\ turn[h].pc = "idle" \/ Abandoned(h)
    /\ IsSet(turn[Chat].session_id)
    /\ get_chat_history(h, Get(turn[Chat].session_id))
\* the awaited request returns with the handler's response
request_returns(h) ==
    /\ Awaited(h)
    /\ turn[h].pc = "responded"
    /\ LET r == Get(response[h])
           chat == turn[Chat]
           after ==
               CASE turn[h].kind = "start" -> run_reset(start_conversation(chat, r))
                 [] turn[h].kind = "continue" ->
                        run_reset(continue_conversation(chat, r))
                 [] OTHER -> chat
       IN  turn' = [turn EXCEPT ![Chat] = after, ![h] = IdleTurn]
    /\ response' = [response EXCEPT ![h] = None]
    /\ UNCHANGED <<store, now, nextSid, turns>>
\* the awaited request times out in the client (timeout=60, timeout=120):
\* a RequestException; the handler goes on without it
request_times_out(h) ==
    /\ Awaited(h)
    /\ InFlight(h)
    /\ turn' = [turn EXCEPT ![h] = Abandon(@)]
    /\ UNCHANGED <<store, now, response, nextSid, turns>>

InitClient ==
    /\ store = <<>>
    /\ now = 0
    /\ turn = [h \in Handlers \cup {Chat} |->
                  IF h = Chat THEN MultiAgentChat ELSE IdleTurn]
    /\ response = [h \in Handlers |-> None]
    /\ nextSid = 1
    /\ turns = 0
NextClient ==
    \/ \E h \in Handlers, m \in ServerTexts : run_message(h, m)
    \/ run_new
    \/ \E h \in Handlers : run_history(h)
    \/ \E h \in Handlers : request_returns(h)
    \/ \E h \in Handlers : request_times_out(h)
    \/ \E h \in Handlers, run \in AnalystRuns : requirements_analyst(h, run)
    \/ \E h \in Handlers, run \in GeneratorRuns : workflow_generator(h, run)
    \/ \E h \in Handlers : respond(h)
    \/ now = 0 /\ elapse(ttl_seconds)
    \/ now >= ttl_seconds /\ elapse(1)
    \/ cleanup_loop
\* one interactive client in front of the served routes
SpecClient == InitClient /\ [][NextClient]_vars


\* this step posts a request of the given kind to handler h
ClientPosts(h, kind) ==
    /\ Free(h)
    /\ turn'[h] # turn[h]
    /\ turn'[h].pc # "idle"
    /\ turn'[h].kind = kind
\* the last response the client parsed ended its conversation
LastResponseComplete ==
    IsSet(turn[Chat].data) /\ Get(turn[Chat].data).conversation_complete

C36_ClientState ==
    /\ LastResponseComplete => ~IsSet(turn[Chat].session_id)
    /\ IsSet(turn[Chat].session_id) =>
          /\ IsSet(turn[Chat].data)
          /\ Get(turn[Chat].data).session_id = Get(turn[Chat].session_id)
          /\ ~Get(turn[Chat].data).conversation_complete
          /\ ~turn[Chat].conversation_complete
C36_ClientStep ==
    \A h \in Handlers :
        /\ ClientPosts(h, "continue") =>
              /\ IsSet(turn[Chat].session_id)
              /\ turn'[h].session_id = Get(turn[Chat].session_id)
              /\ ~LastResponseComplete
              /\ Get(turn[Chat].data).session_id = turn'[h].session_id
        /\ (LastResponseComplete /\ Free(h) /\ turn'[h] # turn[h]
            /\ turn'[h].pc # "idle") =>
              /\ turn'[h].kind = "start"
              /\ turn'[h].session_id = nextSid
              /\ turn'[h].session_id \notin DOMAIN store
              /\ turn'[h].session_id # Get(turn[Chat].data).session_id
\* C36: the interactive client posts to /chat/continue only with the session
\* id of the last response it parsed, and only if that response had
\* conversation_complete false; once it has parsed a response with
\* conversation_complete true it holds no session id, and the next message is
\* posted to /chat/start, which opens a new session.
C36_ClientContinuesOnlyOpenSession ==
    []C36_ClientState /\ [][C36_ClientStep]_vars
\* a conversation ended on a continue_chat turn, and the next message the
\* user typed was posted to /chat/start and opened another session
C36_Witness ==
    \E h \in Handlers :
        /\ Awaited(h)
        /\ turn[h].kind = "start"
        /\ LastResponseComplete
        /\ Len(Transcript(Get(turn[Chat].data).session_id)) = 4
        /\ turn[h].session_id # Get(turn[Chat].data).session_id

====
